---------------------------- MODULE Spec2Model ----------------------------
(***************************************************************************)
(* Model of src/Program/main/main.ino: the control loop of a coffee scale. *)
(*                                                                         *)
(* Weights are fixed-point integers in units of 1/10000 g (G units per     *)
(* gram).  The stable weight is a multiple of 0.1 g and the readings are   *)
(* drawn from multiples of 0.01 g, for which every product of the adaptive *)
(* filter is exact in this unit.  The rounding error of the 32-bit floats  *)
(* of the program is not modelled.                                         *)
(* Times are integers in milliseconds; `time` is kept in milliseconds, the *)
(* program's value is time/1000 seconds.  The 32-bit wrap of millis()      *)
(* (after 49 days) lies outside the horizon of the model.                  *)
(***************************************************************************)
EXTENDS Integers, Sequences, FiniteSets, TLC

VARIABLES
    pc,             \* position of loop(): "poll", "confirm", "release", "tick"
    now,            \* millis()
    button,         \* last level read from ZERO_BUTTON_PIN
    pressResets,    \* resets done during the press being held (history)
    presses,        \* presses seen at line 122 so far (bounds the model)
    holds,          \* iterations of the wait for release in this press
    units,          \* latest units reading delivered by the sample source
    ready,          \* value of scale.is_ready() at the last tick
    grams,          \* the local `grams` of the last tick
    gFilt,          \* static gFilt: the stable weight
    prevGFilt,      \* static prevGFilt
    shown_g,        \* static shown_g of hysteresis()
    running,        \* static running
    time,           \* static time (in ms)
    startOnce,      \* static startOnce: the latch
    tStart,         \* global tStart
    flowStopTimer,  \* global flowStopTimer
    flowEv          \* branch of the flow-stop evaluation taken by the last tick

vars == <<pc, now, button, pressResets, presses, holds, units, ready, grams,
          gFilt, prevGFilt, shown_g, running, time, startOnce, tStart, flowStopTimer, flowEv>>

---------------------------------------------------------------------------
(* Program constants *)

G == 10000                  \* fixed-point units per gram
emaBig == 40                \* 0.4, in hundredths
emaMed == 70                \* 0.7
emaSma == 95                \* 0.95
threshold == 800            \* 0.08 g
zClampPos == 2000           \* 0.2 g
zClampNeg == 3000           \* 0.3 g
timerStartG == 20000        \* 2.0 g
minFlowT == 800             \* ms
minFlowG == 2000            \* 0.2 g
snapErr == 10000            \* 1.0f of line 151
bigErr == 3000              \* 0.3f of line 156
medErr == 1000              \* 0.1f of line 157
debounceDelay == 25         \* delay(25)
releaseDelay == 10          \* delay(10)
tareBeep == 150             \* beep(150)
loopDelay == 30             \* delay(30)
step == 1000                \* 0.1 g, the quantizer's step (10.0f of line 237)

LOW == 0
HIGH == 1

\* millis() when setup() returns: the sum of its delays and beeps.
BootMs == 200 + 120 + 800 + 200 + 300

---------------------------------------------------------------------------
(* Bounds of the model *)

Horizon == 2400             \* ms of loop() that are explored
IoMs == 370                 \* ms a tick spends in the sensor reads and the display
MaxPresses == 2             \* presses of the tare button that are explored
MaxHold == 1                \* iterations of the wait for release per press
MaxP == 5                   \* filter step alone: previous outputs up to MaxP * 0.1 g
MaxR == 200                 \* filter step alone: raw values up to MaxR * 0.01 g
MaxGate == 12               \* gate alone: values up to MaxGate * 0.01 g
MaxStage == 120             \* clamp and quantizer alone: values up to MaxStage * 0.005 g

MaxNow == BootMs + Horizon
TickMs == loopDelay + IoMs
Readings == {-2500, 0, 1500, 20000, 25000, 28000}

---------------------------------------------------------------------------
(* Pure functions *)

Abs(x) == IF x < 0 THEN -x ELSE x

\* quantize that rounds halves up: floorf(g * 10.0f + 0.5f) / 10.0f
quantize_HalfUp(g) == ((g + step \div 2) \div step) * step

\* roundf(g * 10.0f) / 10.0f: nearest multiple of 0.1, halves away from zero
quantize(g) ==
    IF g >= 0 THEN ((g + step \div 2) \div step) * step
              ELSE -((((-g) + step \div 2) \div step) * step)

\* hysteresis() with > instead of >=
hysteresis_Strict(shown, read_g) ==
    IF Abs(read_g - shown) > threshold THEN read_g ELSE shown

\* hysteresis(): the new value of shown_g, which is also the value returned
hysteresis(shown, read_g) ==
    IF Abs(read_g - shown) >= threshold THEN read_g ELSE shown

\* varZeroClamp with <= at the band edges
varZeroClamp_Closed(g) ==
    IF g < 0 /\ Abs(g) <= zClampNeg THEN 0
    ELSE IF g > 0 /\ Abs(g) <= zClampPos THEN 0
    ELSE g

\* varZeroClamp without the negative band
varZeroClamp_PosOnly(g) ==
    IF g > 0 /\ Abs(g) < zClampPos THEN 0 ELSE g

\* varZeroClamp(): near-zero values become exactly 0
varZeroClamp(g) ==
    IF g < 0 /\ Abs(g) < zClampNeg THEN 0
    ELSE IF g > 0 /\ Abs(g) < zClampPos THEN 0
    ELSE g

\* emaOf with >= at the band edges
emaOf_AtLeast(err) ==
    IF err >= bigErr THEN emaBig
    ELSE IF err >= medErr THEN emaMed
    ELSE emaSma

\* the smoothing coefficient chosen in the else branch of the adaptive EMA
emaOf(err) ==
    IF err > bigErr THEN emaBig
    ELSE IF err > medErr THEN emaMed
    ELSE emaSma

\* adaptive EMA with the two weights exchanged
adaptiveEMA_Swapped(p, r) ==
    LET err == Abs(r - p)
    IN  IF err > snapErr THEN r
        ELSE ((100 - emaOf(err)) * p + emaOf(err) * r) \div 100

\* adaptive EMA: the value of gFilt after line 161
adaptiveEMA(p, r) ==
    LET err == Abs(r - p)
    IN  IF err > snapErr THEN r
        ELSE (emaOf(err) * p + (100 - emaOf(err)) * r) \div 100

\* the pipeline without the zero clamp of line 164
Pipeline_NoClamp(p, shown, r) ==
    LET s == hysteresis(shown, adaptiveEMA(p, r))
    IN  [shown |-> s, stable |-> quantize(s)]

\* raw reading processing: the stable weight and the gate's retained value
Pipeline(p, shown, r) ==
    LET s == hysteresis(shown, adaptiveEMA(p, r))
    IN  [shown |-> s, stable |-> quantize(varZeroClamp(s))]

---------------------------------------------------------------------------
(* Timer rules *)

\* FlowCheck with a stop that leaves the latch set
FlowCheck_KeepLatch(run, once, fst, deltaG, t) ==
    IF ~run THEN [running |-> run, startOnce |-> once, flowStopTimer |-> fst, ev |-> "idle"]
    ELSE IF deltaG < minFlowG
         THEN IF fst = 0
              THEN [running |-> TRUE, startOnce |-> once, flowStopTimer |-> t, ev |-> "capture"]
              ELSE IF t - fst > minFlowT
                   THEN [running |-> FALSE, startOnce |-> once, flowStopTimer |-> 0, ev |-> "stop"]
                   ELSE [running |-> TRUE, startOnce |-> once, flowStopTimer |-> fst, ev |-> "wait"]
         ELSE [running |-> TRUE, startOnce |-> once, flowStopTimer |-> 0, ev |-> "flow"]

\* FlowCheck with the window tested by >= instead of >
FlowCheck_AtLeast(run, once, fst, deltaG, t) ==
    IF ~run THEN [running |-> run, startOnce |-> once, flowStopTimer |-> fst, ev |-> "idle"]
    ELSE IF deltaG < minFlowG
         THEN IF fst = 0
              THEN [running |-> TRUE, startOnce |-> once, flowStopTimer |-> t, ev |-> "capture"]
              ELSE IF t - fst >= minFlowT
                   THEN [running |-> FALSE, startOnce |-> FALSE, flowStopTimer |-> 0, ev |-> "stop"]
                   ELSE [running |-> TRUE, startOnce |-> once, flowStopTimer |-> fst, ev |-> "wait"]
         ELSE [running |-> TRUE, startOnce |-> once, flowStopTimer |-> 0, ev |-> "flow"]

\* FlowCheck that stops at the first stalled tick after the capture
FlowCheck_NoWindow(run, once, fst, deltaG, t) ==
    IF ~run THEN [running |-> run, startOnce |-> once, flowStopTimer |-> fst, ev |-> "idle"]
    ELSE IF deltaG < minFlowG
         THEN IF fst = 0
              THEN [running |-> TRUE, startOnce |-> once, flowStopTimer |-> t, ev |-> "capture"]
              ELSE [running |-> FALSE, startOnce |-> FALSE, flowStopTimer |-> 0, ev |-> "stop"]
         ELSE [running |-> TRUE, startOnce |-> once, flowStopTimer |-> 0, ev |-> "flow"]

\* FlowCheck that captures the timestamp again on every stalled tick
FlowCheck_Recapture(run, once, fst, deltaG, t) ==
    IF ~run THEN [running |-> run, startOnce |-> once, flowStopTimer |-> fst, ev |-> "idle"]
    ELSE IF deltaG < minFlowG
         THEN IF fst = 0 \/ t - fst <= minFlowT
              THEN [running |-> TRUE, startOnce |-> once, flowStopTimer |-> t, ev |-> "capture"]
              ELSE [running |-> FALSE, startOnce |-> FALSE, flowStopTimer |-> 0, ev |-> "stop"]
         ELSE [running |-> TRUE, startOnce |-> once, flowStopTimer |-> 0, ev |-> "flow"]

\* the flow-stop evaluation: deltaG is gFilt - prevGFilt, t is millis()
FlowCheck(run, once, fst, deltaG, t) ==
    IF ~run THEN [running |-> run, startOnce |-> once, flowStopTimer |-> fst, ev |-> "idle"]
    ELSE IF deltaG < minFlowG
         THEN IF fst = 0
              THEN [running |-> TRUE, startOnce |-> once, flowStopTimer |-> t, ev |-> "capture"]
              ELSE IF t - fst > minFlowT
                   THEN [running |-> FALSE, startOnce |-> FALSE, flowStopTimer |-> 0, ev |-> "stop"]
                   ELSE [running |-> TRUE, startOnce |-> once, flowStopTimer |-> fst, ev |-> "wait"]
         ELSE [running |-> TRUE, startOnce |-> once, flowStopTimer |-> 0, ev |-> "flow"]

\* TimerStarts with >= instead of >
TimerStarts_AtLeast(g, run) == g >= timerStartG /\ ~run

\* the condition of the timer's start
TimerStarts(g, run) == g > timerStartG /\ ~run

\* Elapsed without the test of the latch
\* the elapsed time computed without looking at running
Elapsed_NoRun(run, once, t, ts, old) == IF once THEN t - ts ELSE old

Elapsed_NoLatch(run, once, t, ts, old) == IF run THEN t - ts ELSE old

\* the elapsed time shown after the tick
Elapsed(run, once, t, ts, old) == IF run /\ once THEN t - ts ELSE old

\* the reset without the wait for release
AfterReset_NoWait == "tick"

\* line 135: after the reset the loop waits for the release of the button
AfterReset == "release"

\* the tare block without line 130
TareReset_KeepFlowStop == [gFilt |-> 0, running |-> FALSE, time |-> 0,
                           flowStopTimer |-> flowStopTimer, startOnce |-> TRUE]

\* the values the tare block assigns
TareReset == [gFilt |-> 0, running |-> FALSE, time |-> 0,
              flowStopTimer |-> 0, startOnce |-> TRUE]

---------------------------------------------------------------------------
(* The loop *)

Init ==
    /\ pc = "poll"
    /\ now = BootMs
    /\ button = HIGH
    /\ pressResets = 0
    /\ presses = 0
    /\ holds = 0
    /\ units = 0
    /\ ready = FALSE
    /\ grams = 0
    /\ gFilt = 0
    /\ prevGFilt = 0
    /\ shown_g = 0
    /\ running = FALSE
    /\ time = 0
    /\ startOnce = TRUE
    /\ tStart = 0
    /\ flowStopTimer = 0
    /\ flowEv = "idle"

weigh == <<units, ready, grams, gFilt, prevGFilt, shown_g>>
timer == <<running, time, startOnce, tStart, flowStopTimer, flowEv>>

\* line 122: the first read of the tare button, and the debounce delay
PollButton(b) ==
    /\ pc = "poll"
    /\ button' = b
    /\ IF b = LOW
       THEN /\ now + debounceDelay <= MaxNow
            /\ presses < MaxPresses
            /\ presses' = presses + 1
            /\ now' = now + debounceDelay
            /\ pc' = "confirm"
            /\ UNCHANGED pressResets
       ELSE /\ pc' = "tick"
            /\ pressResets' = 0
            /\ UNCHANGED <<now, presses>>
    /\ UNCHANGED <<holds, weigh, timer>>

\* lines 125-132: the confirming read, and the reset when it is still LOW.
\* scale.tare() re-zeroes the sample source; what it reads afterwards is an
\* input of the ticks that follow
ConfirmButton(b) ==
    /\ pc = "confirm"
    /\ button' = b
    /\ IF b = LOW
       THEN /\ now + tareBeep <= MaxNow
            /\ now' = now + tareBeep
            /\ gFilt' = TareReset.gFilt
            /\ running' = TareReset.running
            /\ time' = TareReset.time
            /\ flowStopTimer' = TareReset.flowStopTimer
            /\ startOnce' = TareReset.startOnce
            /\ pressResets' = pressResets + 1
            /\ pc' = AfterReset
            /\ holds' = 0
            /\ UNCHANGED <<presses, units, ready, grams, prevGFilt, shown_g, tStart, flowEv>>
       ELSE /\ pc' = "tick"
            /\ pressResets' = 0
            /\ UNCHANGED <<now, presses, holds, weigh, timer>>

\* lines 135-137: one iteration of the wait for release
WaitRelease(b) ==
    /\ pc = "release"
    /\ button' = b
    /\ IF b = LOW
       THEN /\ now + releaseDelay <= MaxNow
            /\ holds < MaxHold
            /\ holds' = holds + 1
            /\ now' = now + releaseDelay
            /\ pc' = "release"
            /\ UNCHANGED pressResets
       ELSE /\ pc' = "tick"
            /\ pressResets' = 0
            /\ UNCHANGED <<now, holds>>
    /\ UNCHANGED <<presses, weigh, timer>>

\* lines 111-112 and 141-144: the local grams starts at 0.0f on every pass
\* and is assigned only when the sample source is ready
SampleUnits(rdy, r) == IF rdy THEN r ELSE 0

\* lines 146-194: what one pass computes from the value g of grams at
\* the clock value t
TickOut(g, t) ==
    LET p  == Pipeline(gFilt, shown_g, g)
        fc == FlowCheck(running, startOnce, flowStopTimer, p.stable - prevGFilt, t)
        st == TimerStarts(p.stable, fc.running)
        run2 == fc.running \/ st
        ts2  == IF st THEN t ELSE tStart
    IN  [shown_g |-> p.shown, gFilt |-> p.stable, running |-> run2,
         startOnce |-> fc.startOnce,
         flowStopTimer |-> IF st THEN 0 ELSE fc.flowStopTimer,
         tStart |-> ts2,
         time |-> Elapsed(run2, fc.startOnce, t, ts2, time),
         flowEv |-> fc.ev]

\* lines 141-221: the sample, the pipeline, the timer and the pacing delay.
\* rdy is scale.is_ready(), r the reading of a ready sensor, d the tick's length
Tick(rdy, r, d) ==
    /\ pc = "tick"
    /\ now + d <= MaxNow
    /\ LET g == SampleUnits(rdy, r)
           o == TickOut(g, now)
       IN  /\ ready' = rdy
           /\ units' = IF rdy THEN r ELSE units
           /\ grams' = g
           /\ shown_g' = o.shown_g
           /\ gFilt' = o.gFilt
           /\ prevGFilt' = o.gFilt
           /\ running' = o.running
           /\ startOnce' = o.startOnce
           /\ flowStopTimer' = o.flowStopTimer
           /\ tStart' = o.tStart
           /\ time' = o.time
           /\ flowEv' = o.flowEv
    /\ now' = now + d
    /\ pc' = "poll"
    /\ UNCHANGED <<button, pressResets, presses, holds>>

Next ==
    \/ \E b \in {LOW, HIGH} : PollButton(b)
    \/ \E b \in {LOW, HIGH} : ConfirmButton(b)
    \/ \E b \in {LOW, HIGH} : WaitRelease(b)
    \/ \E rdy \in BOOLEAN, r \in Readings : Tick(rdy, r, TickMs)

Spec == Init /\ [][Next]_vars

---------------------------------------------------------------------------
(* The loop under a fair scheduler, with the tare button left alone:
   loop() is called again for ever and every call returns *)

NextLive ==
    \/ PollButton(HIGH)
    \/ \E rdy \in BOOLEAN, r \in Readings : Tick(rdy, r, TickMs)

SpecLive == Init /\ [][NextLive]_vars /\ WF_vars(NextLive)

---------------------------------------------------------------------------
(* The loop at the nominal cadence, with no tare, on the stable weights
   0, 0, 2.5, 2.6, 2.6, ... *)

Script(k) == IF k < 2 THEN 0 ELSE IF k = 2 THEN 25000 ELSE 26000

\* the index of the tick that runs at the clock value t
TickIndex(t) == (t - BootMs) \div loopDelay

NominalTick(rdy, r) ==
    /\ Tick(rdy, r, loopDelay)
    /\ gFilt' = Script(TickIndex(now))

NextNominal ==
    \/ PollButton(HIGH)
    \/ \E rdy \in BOOLEAN, r \in Readings : NominalTick(rdy, r)

SpecNominal == Init /\ [][NextNominal]_vars

---------------------------------------------------------------------------
(* The adaptive filter step alone, on previous outputs p and raw values r *)

FilterP == {k * step : k \in -MaxP..MaxP}
FilterR == {k * (step \div 10) : k \in -MaxR..MaxR}

InitFilter ==
    /\ pc = "filter"
    /\ now = BootMs
    /\ button = HIGH
    /\ pressResets = 0
    /\ presses = 0
    /\ holds = 0
    /\ units = 0
    /\ ready = TRUE
    /\ grams \in FilterR
    /\ gFilt \in FilterP
    /\ prevGFilt = gFilt
    /\ shown_g = 0
    /\ running = FALSE
    /\ time = 0
    /\ startOnce = TRUE
    /\ tStart = 0
    /\ flowStopTimer = 0
    /\ flowEv = "idle"

\* lines 149-161 alone
FilterStep ==
    /\ pc = "filter"
    /\ gFilt' = adaptiveEMA(gFilt, grams)
    /\ pc' = "filtered"
    /\ UNCHANGED <<now, button, pressResets, presses, holds, units, ready, grams,
                   prevGFilt, shown_g, timer>>

SpecFilter == InitFilter /\ [][FilterStep]_vars

---------------------------------------------------------------------------
(* The hysteresis gate alone, on any sequence of inputs.  At "gate" gFilt
   holds the argument of the call of line 163; at "gated" the call has
   returned shown_g and the assignment of line 163 is still to come. *)

GateValues == {k * (step \div 10) : k \in -MaxGate..MaxGate}

Defaults ==
    /\ now = BootMs
    /\ button = HIGH
    /\ pressResets = 0
    /\ presses = 0
    /\ holds = 0
    /\ units = 0
    /\ ready = TRUE
    /\ grams = 0
    /\ prevGFilt = 0
    /\ running = FALSE
    /\ time = 0
    /\ startOnce = TRUE
    /\ tStart = 0
    /\ flowStopTimer = 0
    /\ flowEv = "idle"

others == <<now, button, pressResets, presses, holds, units, ready, grams,
            prevGFilt, timer>>

InitGate ==
    /\ pc = "gate"
    /\ shown_g = 0
    /\ gFilt \in GateValues
    /\ Defaults

\* lines 241-247: one call of hysteresis(gFilt)
GateStep ==
    /\ pc = "gate"
    /\ shown_g' = hysteresis(shown_g, gFilt)
    /\ pc' = "gated"
    /\ UNCHANGED <<gFilt, others>>

\* the next input of the gate
GateInput(x) ==
    /\ pc = "gated"
    /\ gFilt' = x
    /\ pc' = "gate"
    /\ UNCHANGED <<shown_g, others>>

NextGate == GateStep \/ \E x \in GateValues : GateInput(x)

SpecGate == InitGate /\ [][NextGate]_vars

---------------------------------------------------------------------------
(* The zero clamp and the quantizer alone: lines 164-165 on the values the
   gate returns, or a call of quantize() on any value, and the quantizer
   applied once more.  shown_g keeps the input. *)

StageValues == {k * (step \div 20) : k \in -MaxStage..MaxStage}

InitStages ==
    /\ pc \in {"clamp", "round"}
    /\ shown_g \in StageValues
    /\ gFilt = shown_g
    /\ Defaults

\* line 164
ClampStep ==
    /\ pc = "clamp"
    /\ gFilt' = varZeroClamp(gFilt)
    /\ pc' = "quant"
    /\ UNCHANGED <<shown_g, others>>

\* line 165
QuantStep ==
    /\ pc = "quant"
    /\ gFilt' = quantize(gFilt)
    /\ pc' = "quantized"
    /\ UNCHANGED <<shown_g, others>>

\* lines 236-238: quantize() called on any value
RoundStep ==
    /\ pc = "round"
    /\ gFilt' = quantize(gFilt)
    /\ pc' = "quantized"
    /\ UNCHANGED <<shown_g, others>>

\* quantize() applied to its own result
RequantStep ==
    /\ pc = "quantized"
    /\ gFilt' = quantize(gFilt)
    /\ pc' = "requantized"
    /\ UNCHANGED <<shown_g, others>>

NextStages == ClampStep \/ QuantStep \/ RoundStep \/ RequantStep

SpecStages == InitStages /\ [][NextStages]_vars

TypeOK ==
    /\ pc \in {"poll", "confirm", "release", "tick"}
    /\ now \in BootMs..MaxNow
    /\ button \in {LOW, HIGH}
    /\ running \in BOOLEAN /\ startOnce \in BOOLEAN /\ ready \in BOOLEAN
    /\ time \in 0..Horizon
    /\ tStart \in 0..MaxNow /\ flowStopTimer \in 0..MaxNow
    /\ gFilt % step = 0 /\ prevGFilt % step = 0

\* a step that is one pass of the pipeline and the timer
IsTick == pc = "tick" /\ pc' = "poll"

---------------------------------------------------------------------------
(* Tare *)

\* C1: right after a confirmed tare, whatever the state before it, the
\* filtered weight is 0, the timer is Idle with the latch re-armed, the
\* elapsed time is 0 and the flow-stop tracking is cleared.
C1_TareResetsAll ==
    pc = "release" =>
        /\ gFilt = 0
        /\ running = FALSE /\ startOnce = TRUE
        /\ time = 0
        /\ flowStopTimer = 0

\* a tare taken right after a tick that stopped the timer, with the weight
\* still on the scale
C1_Witness == pc = "release" /\ flowEv = "stop" /\ prevGFilt > 2 * G /\ gFilt = 0

\* a tare taken while the flow-stop tracking was pending
C1_WitnessPending == pc = "release" /\ flowEv \in {"capture", "wait"} /\ gFilt = 0

\* C9: a press still asserted at the confirming read causes exactly one
\* reset, and no tick runs before a read finds the trigger released; a
\* press no longer asserted at the confirming read causes no reset.
C9_OneResetPerPress ==
    [][ /\ pressResets' <= 1
        /\ (pressResets' # pressResets /\ pressResets' # 0) =>
              (pc = "confirm" /\ button' = LOW /\ pressResets' = 1 /\ pc' = "release")
        /\ (pc = "confirm" /\ button' = LOW) => pressResets' = 1
        /\ (pc = "release" /\ button' = LOW) =>
              (pc' = "release" /\ UNCHANGED <<weigh, timer>>)
        /\ (pc = "confirm" /\ button' = HIGH) =>
              (pc' = "tick" /\ pressResets' = 0 /\ UNCHANGED <<weigh, timer>>)
        /\ IsTick => (button = HIGH /\ pressResets = 0)
      ]_vars

\* the trigger is still held after the reset: the loop has waited once
C9_Witness == pc = "release" /\ pressResets = 1 /\ holds = 1 /\ button = LOW

---------------------------------------------------------------------------
(* Flow-gated timer *)

\* C2: once the flow-stop has cleared the latch, no step changes the
\* elapsed time while the latch stays cleared (only a tare re-arms it),
\* whatever the weight does and whether or not the timer runs again.
C2_FrozenAfterStop == [][ ~startOnce' => time' = time ]_vars

\* the timer runs again after a stop, two ticks later, with the time the
\* stop left
C2_Witness ==
    /\ pc = "poll" /\ ~startOnce /\ running
    /\ flowEv = "capture" /\ time > 0 /\ time # (now - TickMs) - tStart

\* C3 as stated: at the end of the tick that stops the timer the timer is
\* Idle.
C3_IdleAfterStall == (pc = "poll" /\ flowEv = "stop") => ~running

\* C3, amended: on the stable weights 0, 0, 2.5, 2.6, 2.6, ... at the
\* nominal cadence the timer starts on the tick of 2.5, the stall is
\* captured on the tick after it, and the first tick that finds the stall
\* older than 800 ms, and no earlier tick, stops the timer: it clears the
\* latch and the flow-stop tracking and leaves the elapsed time as it was.
\* The weight is still above 2.0, so the same tick sets running again and
\* records a new start time: the timer is Running at the end of the tick.
C3_StopThenRunning ==
    [][ IsTick =>
          LET due == running /\ flowStopTimer # 0 /\ now - flowStopTimer > 800
          IN  /\ due => /\ flowEv' = "stop" /\ ~startOnce'
                        /\ flowStopTimer' = 0 /\ time' = time
                        /\ running' /\ tStart' = now
              /\ (startOnce /\ ~due) => startOnce'
              /\ running' <=> TickIndex(now) >= 2
              /\ startOnce' => (tStart' = IF running' THEN BootMs + 2 * loopDelay ELSE 0)
              /\ (startOnce' /\ TickIndex(now) >= 3) =>
                    flowStopTimer' = BootMs + 3 * loopDelay
      ]_vars

\* the end of the tick that stopped the timer
C3_Witness ==
    /\ pc = "poll" /\ flowEv = "stop" /\ ~startOnce /\ running
    /\ gFilt = 26000 /\ prevGFilt = 26000
    /\ tStart = now - loopDelay /\ time > 800

\* C5: with no tare, from a state where the timer is Running with the latch
\* set the flow-stop fires (the latch is cleared, which freezes the elapsed
\* time), unless a tick with a delta of at least 0.2 comes first: a plateau
\* and a falling weight stop the timer alike.  StallMargin keeps the start
\* of the stall far enough from the end of the explored horizon.
StallMargin == debounceDelay + (800 \div TickMs + 2) * (TickMs + debounceDelay)

C5_StallStops ==
    (running /\ startOnce /\ now + StallMargin <= MaxNow)
        ~> ((flowEv = "stop" /\ ~startOnce) \/ flowEv = "flow")

\* the timer was stopped while the weight went down
C5_Witness ==
    /\ pc = "poll" /\ flowEv = "stop" /\ ~startOnce /\ ~running
    /\ gFilt < 2 * G /\ time > 800

\* C4: a tick that finds the timer Idle leaves it Running exactly when its
\* stable weight is above 2.0 (2.0 itself does not start it); the start
\* records the clock as start time and clears the flow-stop tracking.
C4_StartRule ==
    [][ (IsTick /\ ~running) =>
          /\ running' <=> (gFilt' > 2 * G)
          /\ running' => (tStart' = now /\ flowStopTimer' = 0)
          /\ ~running' => (tStart' = tStart /\ flowStopTimer' = flowStopTimer)
      ]_vars

\* the timer has just started, on a tick that follows an Idle tick at
\* exactly 2.0
C4_Witness ==
    /\ pc = "poll" /\ running /\ startOnce /\ flowEv = "idle"
    /\ tStart = now - TickMs /\ time = 0 /\ gFilt > 2 * G
    /\ tStart > BootMs

\* an Idle tick at exactly 2.0
C4_IdleAtThreshold == pc = "poll" /\ ~running /\ gFilt = 2 * G /\ ready

\* C6: a tick stops the timer only when its delta is below 0.2 and more than
\* 800 ms have passed since the capture of the flow-stop timestamp; the
\* timestamp outlives a tick only when that tick's delta is below 0.2; and
\* a Running tick with a delta of at least 0.2 clears it.
C6_StopOnlyAfterStall ==
    [][ IsTick =>
          LET delta == gFilt' - prevGFilt
          IN  /\ flowEv' = "stop" =>
                    /\ running /\ delta < (G \div 5)
                    /\ flowStopTimer # 0 /\ now - flowStopTimer > 800
              /\ (running /\ ~running') => flowEv' = "stop"
              /\ (startOnce /\ ~startOnce') => flowEv' = "stop"
              /\ flowStopTimer' # 0 =>
                    (running /\ running' /\ delta < (G \div 5))
              /\ (flowStopTimer # 0 /\ flowStopTimer' # 0) =>
                    flowStopTimer' = flowStopTimer
              /\ (running /\ delta >= (G \div 5)) =>
                    (flowStopTimer' = 0 /\ running' /\ startOnce' = startOnce)
      ]_vars

\* a tick that found the stall exactly 800 ms old and did not stop
C6_Witness ==
    /\ pc = "poll" /\ running /\ flowEv = "wait"
    /\ (now - TickMs) - flowStopTimer = minFlowT

\* a stop
C6_Stopped == pc = "poll" /\ flowEv = "stop"

\* C8: after a tick that leaves the timer Running with the latch set the
\* elapsed time is the clock of the tick minus the start time, and no tick
\* lowers the elapsed time.
C8_ElapsedMonotonic ==
    [][ IsTick =>
          /\ (running' /\ startOnce') => time' = now - tStart'
          /\ time' >= time
      ]_vars

\* the elapsed time has grown over several ticks
C8_Witness == pc = "poll" /\ running /\ startOnce /\ time >= 2 * TickMs

---------------------------------------------------------------------------
(* Sampling *)

\* C7: a tick on which the sample source is not ready runs the pipeline on
\* the units reading of the last ready tick, and ends as a ready tick with
\* that reading would.
C7_NotReadyUsesStale ==
    [][ (IsTick /\ ~ready') =>
          LET o == TickOut(units, now)
          IN  /\ gFilt' = o.gFilt
              /\ running' = o.running /\ startOnce' = o.startOnce
              /\ time' = o.time /\ flowStopTimer' = o.flowStopTimer
      ]_vars

---------------------------------------------------------------------------
(* Adaptive filter *)

\* C10: with err = |r - p|, the filter step gives r when err > 1.0,
\* 0.4p + 0.6r when 0.3 < err <= 1.0, 0.7p + 0.3r when 0.1 < err <= 0.3 and
\* 0.95p + 0.05r when err <= 0.1.
C10_FilterBands ==
    pc = "filtered" =>
        LET p == prevGFilt
            r == grams
            err == Abs(r - p)
        IN  /\ err > G => gFilt = r
            /\ (10 * err > 3 * G /\ err <= G) => 10 * gFilt = 4 * p + 6 * r
            /\ (10 * err > G /\ 10 * err <= 3 * G) => 10 * gFilt = 7 * p + 3 * r
            /\ 10 * err <= G => 100 * gFilt = 95 * p + 5 * r

\* a step at the band edge err = 0.3, taken with the coefficient 0.7
C10_Witness ==
    /\ pc = "filtered" /\ grams - prevGFilt = 3000
    /\ 10 * gFilt = 7 * prevGFilt + 3 * grams /\ gFilt # prevGFilt

---------------------------------------------------------------------------
(* Hysteresis gate, zero clamp, quantizer *)

\* C11: a call of the gate changes its output only when the input differs
\* from the last emitted value by at least 0.08, and then the output is
\* exactly the input; on every other call the output is exactly the
\* previous output.
C11_GateRule ==
    [][ (pc = "gate" /\ pc' = "gated") =>
          IF Abs(gFilt - shown_g) * 100 >= 8 * G
          THEN shown_g' = gFilt
          ELSE shown_g' = shown_g
      ]_vars

\* the gate has kept a non-zero output against an input 0.07 away from it
C11_Witness ==
    /\ pc = "gated" /\ shown_g # 0 /\ gFilt - shown_g = 700

\* the gate has taken an input exactly 0.08 away from its last output
C11_TakenAtEdge == pc = "gated" /\ shown_g = 800 /\ gFilt = 800

\* C12: the clamp gives exactly 0 for every g with -0.3 < g < 0.2 and gives
\* g unchanged for g <= -0.3 and for g >= 0.2.
C12_ClampBands ==
    pc = "quant" =>
        LET g == shown_g
        IN  /\ (10 * g > -3 * G /\ g <= 0) => gFilt = 0
            /\ (g >= 0 /\ 10 * g < 2 * G) => gFilt = 0
            /\ (10 * g <= -3 * G \/ 10 * g >= 2 * G) => gFilt = g

\* the band edge -0.3 has passed through
C12_Witness == pc = "quant" /\ shown_g = -3000 /\ gFilt = -3000

\* C13: quantize gives a multiple of 0.1, the nearest one, a half rounded
\* away from zero, and applied to its own result it changes nothing.
C13_QuantizeIdempotent ==
    [][ /\ pc \in {"quant", "round"} =>
              /\ gFilt' % (G \div 10) = 0
              /\ 20 * Abs(gFilt' - gFilt) <= G
              /\ 20 * Abs(gFilt' - gFilt) = G => Abs(gFilt') > Abs(gFilt)
        /\ pc = "quantized" => gFilt' = gFilt
      ]_vars

\* -0.05 has been rounded to -0.1, and quantized again
C13_Witness == pc = "requantized" /\ shown_g = -500 /\ gFilt = -1000

---------------------------------------------------------------------------
(* Frame of the timer, tare and the pipeline *)

\* C14: on a tick with no tare on which the timer is Idle and the stable
\* weight is at most 2.0, the running flag, the latch, the elapsed time, the
\* recorded start time and the flow-stop timestamp keep their values,
\* whatever the filter, gate, clamp and quantizer computed.
C14_IdleTickKeepsTimer ==
    [][ (IsTick /\ ~running /\ gFilt' * 10 <= 20 * G) =>
          UNCHANGED <<running, startOnce, time, tStart, flowStopTimer>>
      ]_vars

\* an Idle tick on which the pipeline moved the stable weight to exactly 2.0
C14_Witness ==
    /\ pc = "poll" /\ now > BootMs
    /\ ~running /\ flowEv = "idle"
    /\ gFilt = 2 * G /\ shown_g = 2 * G

\* C15: a tare resets neither shown_g nor prevGFilt, which keep their
\* pre-tare values through the reset and the wait for the release, and the
\* first tick after the tare (it starts from gFilt = 0) with a reading
\* within 0.3 of zero gives a stable weight of exactly 0.
C15_TareKeepsGate ==
    [][ /\ (pc = "confirm" /\ pc' = "release") =>
              /\ shown_g' = shown_g
              /\ prevGFilt' = prevGFilt
              /\ gFilt' = 0
        /\ (pc \in {"release", "poll"}) =>
              UNCHANGED <<shown_g, prevGFilt, gFilt>>
        /\ (IsTick /\ gFilt = 0 /\ Abs(grams') * 10 <= 3 * G) => gFilt' = 0
      ]_vars

\* after a tare at 2.5 the gate and the previous stable weight still hold 2.5
C15_Witness ==
    /\ pc = "release" /\ pressResets > 0
    /\ gFilt = 0 /\ shown_g = 25000 /\ prevGFilt = 25000

\* the first tick after that tare, reading -0.25: the gate took -0.075
C15_FirstTick ==
    /\ pc = "poll" /\ presses > 0
    /\ units = -2500 /\ shown_g = -750 /\ gFilt = 0 /\ prevGFilt = 0

\* C16: at the end of every tick, after any readings and tares, the stable
\* weight is a multiple of 0.1 and is never a non-zero value strictly
\* between -0.3 and 0.2.
C16_StableOnGrid ==
    /\ gFilt % (G \div 10) = 0
    /\ prevGFilt % (G \div 10) = 0
    /\ ~(gFilt # 0 /\ gFilt * 10 > -3 * G /\ gFilt * 10 < 2 * G)

\* the gate holds 0.15, inside the band, and the stable weight is exactly 0
C16_Witness ==
    /\ pc = "poll" /\ now > BootMs
    /\ shown_g = 1500 /\ gFilt = 0

---------------------------------------------------------------------------
(* Held reading *)

\* C17: with the sensor ready on every tick and the reading held at one
\* value r, the stable weight eventually equals quantize(varZeroClamp(r))
\* and stays there.  The pipeline's whole state is gFilt and shown_g, so a
\* ready tick that repeats the reading and leaves both unchanged repeats for
\* as long as the reading is held: such a tick must show the target value.
C17_HeldReadingSettles ==
    [][ (IsTick /\ ready /\ ready' /\ units' = units
            /\ gFilt' = gFilt /\ shown_g' = shown_g) =>
          gFilt' = quantize(varZeroClamp(units'))
      ]_vars

\* C18 as stated: on a tick whose reading is within 0.1 of the current
\* stable weight, the stable weight at the end of the tick equals the stable
\* weight at the end of the previous tick (prevGFilt), also right after a
\* tare.
C18_EqualsPreviousTick ==
    [][ (IsTick /\ ready' /\ Abs(units' - gFilt) * 10 <= G) =>
          gFilt' = prevGFilt
      ]_vars

\* C18, amended: on a tick whose sampled value (the reading of a ready
\* sensor, 0 otherwise) is within 0.1 of the stable weight the tick starts
\* from, the stable weight at the end of the tick equals the one it started
\* from: that of the previous tick, or 0 when a tare has reset it since.
C18_NoiseRejected ==
    [][ (IsTick /\ Abs(grams' - gFilt) * 10 <= G) => gFilt' = gFilt ]_vars

\* a reading of 2.5 against a stable weight of 2.6 has left 2.6 standing
C18_Witness ==
    /\ pc = "poll" /\ ready
    /\ units = 25000 /\ gFilt = 26000 /\ shown_g = 25900

\* the first tick after a tare at more than 2.0 read 0 and shows 0
C18_AfterTare ==
    /\ pc = "poll" /\ ready /\ presses > 0
    /\ units = 0 /\ gFilt = 0 /\ shown_g = 0 /\ ~running /\ tStart > 0

=============================================================================
